---- MODULE Spec2Model ----
(***************************************************************************)
(* Model of two compiler passes of the Leo compiler middle layer:          *)
(*  - the statement type checker (Director over StatementVisitorDirector), *)
(*    compiler/passes/src/type_checker/check_statements.rs                 *)
(*  - the constant-folding Flattener (ExpressionReconstructor),            *)
(*    compiler/passes/src/flattening/flatten_expression.rs                 *)
(* Every handler is a (recursive) operator over the pass state and the     *)
(* AST node it is given; an action applies one handler to one input.       *)
(***************************************************************************)
EXTENDS Integers, Sequences, FiniteSets, TLC

VARIABLES
    symbol_table,   \* the Symbol Table shared by the passes
    handler,        \* the Diagnostic Handler: the diagnostics emitted so far
    has_return,     \* TypeChecker.has_return
    parent,         \* TypeChecker.parent: the function being checked
    visits,         \* the expressions the running handler had type-checked, with the hint
    call,           \* the handler that ran last and its input
    output,         \* the (expression, additional output) pair the Flattener returned
    engine,         \* the Constant Value Engine operations the Flattener call invoked
    panicked        \* an unwrap() panicked: the pass was aborted

vars == <<symbol_table, handler, has_return, parent, visits, call, output, engine, panicked>>

(***************************************************************************)
(* Bounds.                                                                 *)
(***************************************************************************)
\* a handler is only started while fewer than MaxErrors diagnostics are recorded
MaxErrors == 1
\* statements per generated Block
MaxLen == 2

(***************************************************************************)
(* Option<T>.                                                              *)
(***************************************************************************)
None == [some |-> FALSE]

Some(x) == [some |-> TRUE, v |-> x]

(***************************************************************************)
(* AST Node Model: names, types, expressions, statements.                  *)
(***************************************************************************)
Names == {"x", "y"}

Types == {"U8", "Boolean"}

ParamModes == {"Const", "Public", "Private"}

\* Expression::Literal(LiteralExpression): kind, source text, span
Literal(kind, raw, span) == [node |-> "Literal", kind |-> kind, raw |-> raw, span |-> span]

\* Expression::Identifier
Identifier(name) == [node |-> "Identifier", name |-> name]

\* Statement::Return
ReturnStatement(e) == [stmt |-> "Return", expression |-> e]

\* Statement::Definition; declaration_type is Declare::Const or Declare::Let
DefinitionStatement(dt, n, t, e, sp) ==
    [stmt |-> "Definition", declaration_type |-> dt, variable_name |-> n,
     type_ |-> t, value |-> e, span |-> sp]

\* Statement::Assign; span is the span of the assignee
AssignStatement(n, e, sp) == [stmt |-> "Assign", assignee |-> n, value |-> e, span |-> sp]

\* Statement::Conditional; next is an Option<Statement>
ConditionalStatement(c, b, nx) == [stmt |-> "Conditional", condition |-> c, block |-> b, next |-> nx]

\* Statement::Iteration
IterationStatement(n, t, e1, e2, b, sp) ==
    [stmt |-> "Iteration", variable |-> n, type_ |-> t, start |-> e1, stop |-> e2,
     block |-> b, span |-> sp]

\* Statement::Console with ConsoleFunction::Assert(expr)
ConsoleAssert(e) == [stmt |-> "Console", function |-> "Assert", expr |-> e]

\* Statement::Console with ConsoleFunction::Error(_) or ConsoleFunction::Log(_)
ConsoleFormat(f) == [stmt |-> "Console", function |-> f]

\* Statement::Block; a Block is its ordered sequence of statements
BlockStatement(b) == [stmt |-> "Block", statements |-> b]

(***************************************************************************)
(* Symbol Table: a stack of scopes, innermost last.                        *)
(***************************************************************************)
NoSym == [bound |-> FALSE]

\* Declaration::Const / Declaration::Mut / Declaration::Input(mode), with the
\* optional folded Value the Flattening Pass reads
Declaration(kind, mode, value) == [kind |-> kind, mode |-> mode, value |-> value]

VariableSymbol(t, sp, decl) == [bound |-> TRUE, type_ |-> t, span |-> sp, declaration |-> decl]

EmptyScope == [n \in Names |-> NoSym]

push_variable_scope(st) == Append(st, EmptyScope)

pop_variable_scope(st) == SubSeq(st, 1, Len(st) - 1)

RECURSIVE lookup_in(_, _, _)
lookup_in(st, name, i) ==
    IF i = 0 THEN NoSym
    ELSE IF st[i][name].bound THEN st[i][name]
    ELSE lookup_in(st, name, i - 1)

\* nearest enclosing binding, innermost scope first
lookup_variable(st, name) == lookup_in(st, name, Len(st))

\* Err(redeclaration) when the name is bound in the current scope
insert_variable(st, name, sym) ==
    IF st[Len(st)][name].bound
    THEN [ok |-> FALSE, err |-> [code |-> "redeclared", name |-> name, span |-> sym.span]]
    ELSE [ok |-> TRUE, st |-> [st EXCEPT ![Len(st)][name] = sym]]

\* program-wide function signatures
Functions == {"f", "g"}

lookup_fn(name) ==
    IF name = "f" THEN Some([output |-> "Boolean"])
    ELSE IF name = "g" THEN Some([output |-> "U8"])
    ELSE None

(***************************************************************************)
(* Diagnostic Handler.                                                     *)
(***************************************************************************)
emit_err(d, err) == [d EXCEPT !.handler = Append(@, err)]

cannont_assign_to_const_var(name, span) == [code |-> "cannot_assign_to_const_var", name |-> name, span |-> span]

cannont_assign_to_const_input(name, span) == [code |-> "cannot_assign_to_const_input", name |-> name, span |-> span]

unknown_sym(name, span) == [code |-> "unknown_sym", name |-> name, span |-> span]

type_mismatch(expr) == [code |-> "type_mismatch", name |-> expr.kind, span |-> expr.span]

(***************************************************************************)
(* Type checker: expression checking as the statement handlers use it.     *)
(***************************************************************************)
\* the type is a primitive type: nothing to validate
validate_ident_type(d, type) == d

\* the expression is visited with the expected-type hint; a literal of another
\* type than the expected one is reported
visit_expression(d, expr, expected) ==
    LET d1 == [d EXCEPT !.visits = Append(@, <<expr, expected>>)]
    IN IF expected.some /\ expr.node = "Literal" /\ expr.kind # expected.v
       THEN emit_err(d1, type_mismatch(expr))
       ELSE d1

(***************************************************************************)
(* Type checker: statement handlers of Director.                           *)
(***************************************************************************)
\* mutant: has_return is set only when the returned expression type-checks
visit_return_unless_mismatch(d, input) ==
    LET f == lookup_fn(d.parent)
        return_type == IF f.some THEN Some(f.v.output) ELSE None
        d1 == validate_ident_type(d, return_type)
        d2 == visit_expression(d1, input.expression, return_type)
    IN [d2 EXCEPT !.has_return = d.has_return \/ (d2.handler = d1.handler)]

visit_return(d, input) ==
    LET f == lookup_fn(d.parent)
        return_type == IF f.some THEN Some(f.v.output) ELSE None
        d1 == validate_ident_type(d, return_type)
        d2 == [d1 EXCEPT !.has_return = TRUE]
    IN visit_expression(d2, input.expression, return_type)

\* mutant: the result of insert_variable is dropped
visit_definition_ignoring_err(d, input) ==
    LET declaration == IF input.declaration_type = "Const"
                       THEN Declaration("Const", "None", None)
                       ELSE Declaration("Mut", "None", None)
        d1 == validate_ident_type(d, Some(input.type_))
        d2 == visit_expression(d1, input.value, Some(input.type_))
        r == insert_variable(d2.symbol_table, input.variable_name,
                             VariableSymbol(input.type_, input.span, declaration))
    IN IF r.ok THEN [d2 EXCEPT !.symbol_table = r.st] ELSE d2

visit_definition(d, input) ==
    LET declaration == IF input.declaration_type = "Const"
                       THEN Declaration("Const", "None", None)
                       ELSE Declaration("Mut", "None", None)
        d1 == validate_ident_type(d, Some(input.type_))
        d2 == visit_expression(d1, input.value, Some(input.type_))
        r == insert_variable(d2.symbol_table, input.variable_name,
                             VariableSymbol(input.type_, input.span, declaration))
    IN IF r.ok THEN [d2 EXCEPT !.symbol_table = r.st] ELSE emit_err(d2, r.err)

\* mutant: an assignment to a constant is reported and then skipped
visit_assign_skipping_const(d, input) ==
    LET var_name == input.assignee
        var == lookup_variable(d.symbol_table, var_name)
    IN IF ~var.bound THEN emit_err(d, unknown_sym(input.assignee, input.span))
       ELSE IF var.declaration.kind = "Const"
       THEN emit_err(d, cannont_assign_to_const_var(var_name, var.span))
       ELSE IF var.declaration.kind = "Input" /\ var.declaration.mode = "Const"
       THEN emit_err(d, cannont_assign_to_const_input(var_name, var.span))
       ELSE visit_expression(validate_ident_type(d, Some(var.type_)), input.value, Some(var.type_))

\* mutant: the value is visited whether or not the assignee resolved
visit_assign_always_visiting(d, input) ==
    LET var_name == input.assignee
        var == lookup_variable(d.symbol_table, var_name)
        d1 == IF var.bound
              THEN IF var.declaration.kind = "Const"
                   THEN emit_err(d, cannont_assign_to_const_var(var_name, var.span))
                   ELSE IF var.declaration.kind = "Input" /\ var.declaration.mode = "Const"
                   THEN emit_err(d, cannont_assign_to_const_input(var_name, var.span))
                   ELSE d
              ELSE emit_err(d, unknown_sym(input.assignee, input.span))
        var_type == IF var.bound THEN Some(var.type_) ELSE None
    IN visit_expression(validate_ident_type(d1, var_type), input.value, var_type)

visit_assign(d, input) ==
    LET var_name == input.assignee
        var == lookup_variable(d.symbol_table, var_name)
        d1 == IF var.bound
              THEN IF var.declaration.kind = "Const"
                   THEN emit_err(d, cannont_assign_to_const_var(var_name, var.span))
                   ELSE IF var.declaration.kind = "Input" /\ var.declaration.mode = "Const"
                   THEN emit_err(d, cannont_assign_to_const_input(var_name, var.span))
                   ELSE d
              ELSE emit_err(d, unknown_sym(input.assignee, input.span))
        var_type == IF var.bound THEN Some(var.type_) ELSE None
    IN IF var_type.some
       THEN visit_expression(validate_ident_type(d1, var_type), input.value, var_type)
       ELSE d1

visit_iteration(d, input) ==
    LET r == insert_variable(d.symbol_table, input.variable,
                             VariableSymbol(input.type_, input.span, Declaration("Const", "None", None)))
        d1 == IF r.ok THEN [d EXCEPT !.symbol_table = r.st] ELSE emit_err(d, r.err)
        iter_type == Some(input.type_)
        d2 == validate_ident_type(d1, iter_type)
        d3 == visit_expression(d2, input.start, iter_type)
    IN visit_expression(d3, input.stop, iter_type)

visit_console(d, input) ==
    IF input.function = "Assert"
    THEN visit_expression(d, input.expr, Some("Boolean"))
    ELSE d

RECURSIVE visit_block(_, _)
RECURSIVE visit_conditional(_, _)
RECURSIVE visit_statement(_, _)
RECURSIVE for_each(_, _, _)
RECURSIVE for_each_reversed(_, _, _)

\* the per-case dispatch of a statement to its handler
visit_statement(d, input) ==
    CASE input.stmt = "Return" -> visit_return(d, input)
      [] input.stmt = "Definition" -> visit_definition(d, input)
      [] input.stmt = "Assign" -> visit_assign(d, input)
      [] input.stmt = "Conditional" -> visit_conditional(d, input)
      [] input.stmt = "Iteration" -> visit_iteration(d, input)
      [] input.stmt = "Console" -> visit_console(d, input)
      [] input.stmt = "Block" -> visit_block(d, input.statements)

\* mutant: the statements i..Len are visited from the last to the first
for_each_reversed(d, statements, i) ==
    IF i > Len(statements) THEN d
    ELSE visit_statement(for_each_reversed(d, statements, i + 1), statements[i])

\* input.statements.iter().for_each(..): statements i..Len in source order
for_each(d, statements, i) ==
    IF i > Len(statements) THEN d
    ELSE for_each(visit_statement(d, statements[i]), statements, i + 1)

visit_conditional(d, input) ==
    LET d1 == visit_expression(d, input.condition, Some("Boolean"))
        d2 == visit_block(d1, input.block)
    IN IF input.next.some THEN visit_statement(d2, input.next.v) ELSE d2

\* mutant: the scope pushed for the Block is never popped
visit_block_without_pop(d, input) ==
    LET d1 == [d EXCEPT !.symbol_table = push_variable_scope(@)]
    IN for_each(d1, input, 1)

visit_block(d, input) ==
    LET d1 == [d EXCEPT !.symbol_table = push_variable_scope(@)]
        d2 == for_each(d1, input, 1)
    IN [d2 EXCEPT !.symbol_table = pop_variable_scope(@)]

(***************************************************************************)
(* Inputs of the type checker.                                             *)
(***************************************************************************)
\* one literal of each type
TCExprs == {Literal("U8", <<"1">>, 0), Literal("Boolean", <<"true">>, 0)}

Definitions(sp) ==
    {DefinitionStatement(dt, n, t, e, sp) : dt \in {"Const", "Let"}, n \in Names, t \in Types, e \in TCExprs}

Assigns(sp) == {AssignStatement(n, e, sp) : n \in Names, e \in TCExprs}

Returns == {ReturnStatement(e) : e \in TCExprs}

Consoles == {ConsoleAssert(e) : e \in TCExprs} \cup {ConsoleFormat("Error"), ConsoleFormat("Log")}

\* loops with an empty body, and loops whose body assigns to the loop variable
Iterations(sp) ==
    {IterationStatement(n, t, e1, e2, b, sp) :
        n \in Names, t \in Types, e1 \in TCExprs, e2 \in TCExprs, b \in {<<>>}}
    \cup {IterationStatement(n, t, e, e, <<AssignStatement(n, e, 1)>>, sp) :
             n \in Names, t \in Types, e \in TCExprs}

\* statements without nested blocks used inside generated Blocks, at position sp
Leaves(sp) ==
    {DefinitionStatement(dt, n, "U8", Literal("U8", <<"1">>, 0), sp) : dt \in {"Const", "Let"}, n \in Names}
    \cup {AssignStatement(n, Literal("U8", <<"1">>, 0), sp) : n \in Names}
    \cup {ReturnStatement(Literal("U8", <<"1">>, 0)), ConsoleAssert(Literal("U8", <<"1">>, 0))}
    \cup {IterationStatement(n, "U8", Literal("U8", <<"0">>, 0), Literal("U8", <<"1">>, 0), <<>>, sp) : n \in Names}

\* statements that may follow the first two statements of a generated Block
TailLeaves(sp) ==
    {DefinitionStatement("Let", "x", "U8", Literal("U8", <<"1">>, 0), sp),
     AssignStatement("x", Literal("U8", <<"1">>, 0), sp)}

RECURSIVE LeafBlocks(_)
\* Blocks of exactly k leaf statements, the i-th carrying span i
LeafBlocks(k) ==
    IF k = 0 THEN {<<>>}
    ELSE {Append(b, s) : b \in LeafBlocks(k - 1), s \in IF k <= 2 THEN Leaves(k) ELSE TailLeaves(k)}

\* Blocks of at most MaxLen leaf statements
FlatBlocks == UNION {LeafBlocks(k) : k \in 0..MaxLen}

\* nested statements: a Block or a Conditional over a Block of at most one leaf
InnerBlocks == LeafBlocks(0) \cup {<<s>> : s \in Leaves(MaxLen + 1)}

Nested ==
    {BlockStatement(b) : b \in InnerBlocks}
    \cup {ConditionalStatement(Literal("Boolean", <<"true">>, 0), b, None) : b \in InnerBlocks}

\* Blocks holding one nested statement: alone, after a Definition of the
\* enclosing Block, or followed by an Assign of the enclosing Block
NestedBlocks ==
    {<<n>> : n \in Nested}
    \cup {<<s, n>> : s \in {l \in Leaves(1) : l.stmt = "Definition"}, n \in Nested}
    \cup {<<n, s>> : n \in Nested, s \in {l \in Leaves(2) : l.stmt = "Assign"}}

Blocks == FlatBlocks \cup NestedBlocks

\* if / else-if / else chains over small blocks
SmallBlocks ==
    {<<>>, <<DefinitionStatement("Let", "x", "U8", Literal("U8", <<"1">>, 0), 1)>>,
     <<AssignStatement("x", Literal("U8", <<"1">>, 0), 1)>>}

Conditionals ==
    {ConditionalStatement(c, b, None) : c \in TCExprs, b \in SmallBlocks}
    \cup {ConditionalStatement(c, b, Some(BlockStatement(b2))) : c \in TCExprs, b \in SmallBlocks, b2 \in SmallBlocks}
    \cup {ConditionalStatement(c, b, Some(ConditionalStatement(c, b2, None))) :
             c \in TCExprs, b \in SmallBlocks, b2 \in SmallBlocks}

(***************************************************************************)
(* The Director as a state machine.                                        *)
(***************************************************************************)
NoCall == [op |-> "none"]

NoOutput == [expr |-> [node |-> "None"], val |-> [some |-> FALSE]]

Director ==
    [symbol_table |-> symbol_table, handler |-> handler, has_return |-> has_return,
     parent |-> parent, visits |-> <<>>]

\* a function's parameters are bound as Input in the outermost scope
ParamScopes ==
    {EmptyScope}
    \cup {[EmptyScope EXCEPT !["x"] = VariableSymbol("U8", 0, Declaration("Input", m, None))] : m \in ParamModes}

Init ==
    /\ symbol_table \in {<<s>> : s \in ParamScopes}
    /\ handler = <<>>
    /\ has_return = FALSE
    /\ parent \in Functions
    /\ visits = <<>>
    /\ call = NoCall
    /\ output = NoOutput
    /\ engine = <<>>
    /\ panicked = FALSE

\* no handler is running, the pass was not aborted, and the bound on the
\* recorded diagnostics allows another call
Idle == call = NoCall /\ ~panicked /\ Len(handler) < MaxErrors

\* the handler `op` runs on `input` and leaves the Director in state d
Handled(op, input, d) ==
    /\ symbol_table' = d.symbol_table
    /\ handler' = d.handler
    /\ has_return' = d.has_return
    /\ visits' = d.visits
    /\ call' = [op |-> op, input |-> input]
    /\ UNCHANGED <<parent, output, engine, panicked>>

VisitReturn == Idle /\ \E s \in Returns : Handled("visit_return", s, visit_return(Director, s))

VisitDefinition == Idle /\ \E s \in Definitions(0) : Handled("visit_definition", s, visit_definition(Director, s))

VisitAssign == Idle /\ \E s \in Assigns(0) : Handled("visit_assign", s, visit_assign(Director, s))

VisitConditional == Idle /\ \E s \in Conditionals : Handled("visit_conditional", s, visit_conditional(Director, s))

VisitIteration == Idle /\ \E s \in Iterations(0) : Handled("visit_iteration", s, visit_iteration(Director, s))

VisitConsole == Idle /\ \E s \in Consoles : Handled("visit_console", s, visit_console(Director, s))

VisitBlock == Idle /\ \E b \in Blocks : Handled("visit_block", b, visit_block(Director, b))

\* the handler has returned; the caller goes on to its next statement
Resume ==
    /\ call # NoCall
    /\ ~panicked
    /\ call' = NoCall
    /\ visits' = <<>>
    /\ output' = NoOutput
    /\ engine' = <<>>
    /\ UNCHANGED <<symbol_table, handler, has_return, parent, panicked>>

Next ==
    \/ VisitReturn
    \/ VisitDefinition
    \/ VisitAssign
    \/ VisitConditional
    \/ VisitIteration
    \/ VisitConsole
    \/ VisitBlock
    \/ Resume

Spec == Init /\ [][Next]_vars

(***************************************************************************)
(* Constant Value Engine: Values and their operations.                     *)
(***************************************************************************)
IntKinds == {"U8", "I8"}

\* Value::U8(n, span), Value::I8(n, span)
IntValue(kind, n, span) == [kind |-> kind, n |-> n, span |-> span]

\* Value::Boolean(b, span)
BoolValue(b, span) == [kind |-> "Boolean", b |-> b, span |-> span]

\* Value::Address(s, span), Value::String(s, span)
TextValue(kind, s, span) == [kind |-> kind, s |-> s, span |-> span]

MinOf(kind) == IF kind = "U8" THEN 0 ELSE -128

MaxOf(kind) == IF kind = "U8" THEN 255 ELSE 127

\* the value of r modulo 2^8 in the range of the integer type
Wrap(kind, r) == IF kind = "U8" THEN r % 256 ELSE ((r + 128) % 256) - 128

InRange(kind, r) == MinOf(kind) <= r /\ r <= MaxOf(kind)

Ok(v) == [ok |-> TRUE, v |-> v]

Err(code, span) == [ok |-> FALSE, err |-> [code |-> code, name |-> "", span |-> span]]

is_supported_const_fold_type(v) == v.kind \in {"Boolean", "U8", "I8"}

Abs(a) == IF a < 0 THEN -a ELSE a

\* division truncating towards zero
TruncDiv(a, b) == IF (a < 0) = (b < 0) THEN Abs(a) \div Abs(b) ELSE -(Abs(a) \div Abs(b))

RECURSIVE PowChecked(_, _, _)
\* a^b, or the marker 1000 once the power leaves the range of the type
PowChecked(kind, a, b) ==
    IF b = 0 THEN 1
    ELSE LET h == PowChecked(kind, a, b \div 2)
             sq == h * h
             p == IF b % 2 = 1 THEN a * sq ELSE sq
         IN IF h = 1000 \/ ~InRange(kind, sq) \/ ~InRange(kind, p) THEN 1000 ELSE p

RECURSIVE PowWrapped(_, _, _)
PowWrapped(kind, a, b) ==
    IF b = 0 THEN 1
    ELSE LET h == PowWrapped(kind, a, b \div 2)
         IN Wrap(kind, IF b % 2 = 1 THEN a * h * h ELSE h * h)

RECURSIVE Pow2(_)
Pow2(k) == IF k = 0 THEN 1 ELSE 2 * Pow2(k - 1)

RECURSIVE Bitwise(_, _, _, _)
\* the bitwise operation on the k low bits of the unsigned a and b
Bitwise(op, a, b, k) ==
    IF k = 0 THEN 0
    ELSE LET x == a % 2
             y == b % 2
             bit == CASE op = "and" -> IF x = 1 /\ y = 1 THEN 1 ELSE 0
                      [] op = "or" -> IF x = 1 \/ y = 1 THEN 1 ELSE 0
                      [] op = "xor" -> IF x # y THEN 1 ELSE 0
         IN 2 * Bitwise(op, a \div 2, b \div 2, k - 1) + bit

\* checked integer arithmetic: the exact result, an error when it leaves the range
CheckedInt(kind, r, span) ==
    IF InRange(kind, r) THEN Ok(IntValue(kind, r, span)) ELSE Err("overflow", span)

SameInt(l, r) == l.kind \in IntKinds /\ r.kind = l.kind

SameBool(l, r) == l.kind = "Boolean" /\ r.kind = "Boolean"

add(l, r, span) ==
    IF SameInt(l, r) THEN CheckedInt(l.kind, l.n + r.n, span) ELSE Err("type_mismatch", span)

add_wrapped(l, r, span) ==
    IF SameInt(l, r) THEN Ok(IntValue(l.kind, Wrap(l.kind, l.n + r.n), span)) ELSE Err("type_mismatch", span)

sub(l, r, span) ==
    IF SameInt(l, r) THEN CheckedInt(l.kind, l.n - r.n, span) ELSE Err("type_mismatch", span)

sub_wrapped(l, r, span) ==
    IF SameInt(l, r) THEN Ok(IntValue(l.kind, Wrap(l.kind, l.n - r.n), span)) ELSE Err("type_mismatch", span)

mul(l, r, span) ==
    IF SameInt(l, r) THEN CheckedInt(l.kind, l.n * r.n, span) ELSE Err("type_mismatch", span)

mul_wrapped(l, r, span) ==
    IF SameInt(l, r) THEN Ok(IntValue(l.kind, Wrap(l.kind, l.n * r.n), span)) ELSE Err("type_mismatch", span)

div(l, r, span) ==
    IF ~SameInt(l, r) THEN Err("type_mismatch", span)
    ELSE IF r.n = 0 THEN Err("division_by_zero", span)
    ELSE CheckedInt(l.kind, TruncDiv(l.n, r.n), span)

div_wrapped(l, r, span) ==
    IF ~SameInt(l, r) THEN Err("type_mismatch", span)
    ELSE IF r.n = 0 THEN Err("division_by_zero", span)
    ELSE Ok(IntValue(l.kind, Wrap(l.kind, TruncDiv(l.n, r.n)), span))

pow(l, r, span) ==
    IF ~SameInt(l, r) THEN Err("type_mismatch", span)
    ELSE IF r.n < 0 \/ PowChecked(l.kind, l.n, r.n) = 1000 THEN Err("overflow", span)
    ELSE Ok(IntValue(l.kind, PowChecked(l.kind, l.n, r.n), span))

pow_wrapped(l, r, span) ==
    IF ~SameInt(l, r) THEN Err("type_mismatch", span)
    ELSE Ok(IntValue(l.kind, PowWrapped(l.kind, l.n, r.n % 256), span))

shl(l, r, span) ==
    IF ~SameInt(l, r) THEN Err("type_mismatch", span)
    ELSE IF r.n < 0 \/ r.n >= 8 THEN Err("shift_out_of_range", span)
    ELSE Ok(IntValue(l.kind, Wrap(l.kind, l.n * Pow2(r.n)), span))

shl_wrapped(l, r, span) ==
    IF ~SameInt(l, r) THEN Err("type_mismatch", span)
    ELSE Ok(IntValue(l.kind, Wrap(l.kind, l.n * Pow2(r.n % 8)), span))

shr(l, r, span) ==
    IF ~SameInt(l, r) THEN Err("type_mismatch", span)
    ELSE IF r.n < 0 \/ r.n >= 8 THEN Err("shift_out_of_range", span)
    ELSE Ok(IntValue(l.kind, Wrap(l.kind, (l.n - (l.n % Pow2(r.n))) \div Pow2(r.n)), span))

shr_wrapped(l, r, span) ==
    IF ~SameInt(l, r) THEN Err("type_mismatch", span)
    ELSE Ok(IntValue(l.kind, Wrap(l.kind, (l.n - (l.n % Pow2(r.n % 8))) \div Pow2(r.n % 8)), span))

\* bitwise operation on integers of one type, logical operation on Booleans
BitOp(op, l, r, span) ==
    IF SameInt(l, r) THEN Ok(IntValue(l.kind, Wrap(l.kind, Bitwise(op, l.n % 256, r.n % 256, 8)), span))
    ELSE IF SameBool(l, r)
    THEN Ok(BoolValue(CASE op = "and" -> l.b /\ r.b
                        [] op = "or" -> l.b \/ r.b
                        [] op = "xor" -> l.b # r.b, span))
    ELSE Err("type_mismatch", span)

bitand(l, r, span) == BitOp("and", l, r, span)

bitor(l, r, span) == BitOp("or", l, r, span)

xor(l, r, span) == BitOp("xor", l, r, span)

not(v, span) ==
    IF v.kind = "Boolean" THEN Ok(BoolValue(~v.b, span))
    ELSE IF v.kind \in IntKinds THEN Ok(IntValue(v.kind, Wrap(v.kind, -v.n - 1), span))
    ELSE Err("type_mismatch", span)

neg(v, span) ==
    IF v.kind = "I8" THEN CheckedInt("I8", -v.n, span) ELSE Err("type_mismatch", span)

eq(l, r, span) ==
    IF SameInt(l, r) THEN Ok(BoolValue(l.n = r.n, span))
    ELSE IF SameBool(l, r) THEN Ok(BoolValue(l.b = r.b, span))
    ELSE Err("type_mismatch", span)

ge(l, r, span) == IF SameInt(l, r) THEN Ok(BoolValue(l.n >= r.n, span)) ELSE Err("type_mismatch", span)

gt(l, r, span) == IF SameInt(l, r) THEN Ok(BoolValue(l.n > r.n, span)) ELSE Err("type_mismatch", span)

le(l, r, span) == IF SameInt(l, r) THEN Ok(BoolValue(l.n <= r.n, span)) ELSE Err("type_mismatch", span)

lt(l, r, span) == IF SameInt(l, r) THEN Ok(BoolValue(l.n < r.n, span)) ELSE Err("type_mismatch", span)

(***************************************************************************)
(* Literal text and Values.                                                *)
(***************************************************************************)
Digits == <<"0", "1", "2", "3", "4", "5", "6", "7", "8", "9">>

IsDigit(c) == \E i \in 1..10 : Digits[i] = c

DigitVal(c) == (CHOOSE i \in 1..10 : Digits[i] = c) - 1

RECURSIVE ParseDigits(_, _, _)
\* the number spelled by the characters i.. of raw after the prefix acc, -1 when
\* a character is no digit or the number exceeds every 8-bit range
ParseDigits(raw, i, acc) ==
    IF i > Len(raw) THEN acc
    ELSE IF ~IsDigit(raw[i]) \/ acc > 255 THEN -1
    ELSE ParseDigits(raw, i + 1, 10 * acc + DigitVal(raw[i]))

\* str::parse::<u8>() / str::parse::<i8>()
parse(kind, raw) ==
    LET negative == kind = "I8" /\ Len(raw) > 1 /\ raw[1] = "-"
        first == IF negative THEN 2 ELSE 1
        m == IF Len(raw) < first THEN -1 ELSE ParseDigits(raw, first, 0)
        n == IF negative THEN -m ELSE m
    IN IF m >= 0 /\ InRange(kind, n) THEN [ok |-> TRUE, v |-> n] ELSE [ok |-> FALSE]

RECURSIVE DigitsOf(_)
DigitsOf(n) == IF n < 10 THEN <<Digits[n + 1]>> ELSE Append(DigitsOf(n \div 10), Digits[(n % 10) + 1])

\* the decimal text of an integer
to_string(n) == IF n < 0 THEN <<"-">> \o DigitsOf(-n) ELSE DigitsOf(n)

\* From<Value> for LiteralExpression
from_value(v) ==
    CASE v.kind \in IntKinds -> Literal(v.kind, to_string(v.n), v.span)
      [] v.kind = "Boolean" -> Literal("Boolean", <<IF v.b THEN "true" ELSE "false">>, v.span)
      [] OTHER -> Literal(v.kind, v.s, v.span)

(***************************************************************************)
(* Expressions with children.                                              *)
(***************************************************************************)
BinaryOperations ==
    {"Add", "AddWrapped", "And", "BitwiseAnd", "Div", "DivWrapped", "Eq", "Ge", "Gt",
     "Le", "Lt", "Mul", "MulWrapped", "Nand", "Neq", "Nor", "Or", "BitwiseOr", "Pow",
     "PowWrapped", "Shl", "ShlWrapped", "Shr", "ShrWrapped", "Sub", "SubWrapped", "Xor"}

UnaryOperations == {"Negate", "Not"}

BinaryExpression(l, r, op, span) == [node |-> "Binary", left |-> l, right |-> r, op |-> op, span |-> span]

UnaryExpression(rc, op, span) == [node |-> "Unary", receiver |-> rc, op |-> op, span |-> span]

TernaryExpression(c, t, e, span) ==
    [node |-> "Ternary", condition |-> c, if_true |-> t, if_false |-> e, span |-> span]

CallExpression(fn, args, span) == [node |-> "Call", function |-> fn, arguments |-> args, span |-> span]

ErrExpression == [node |-> "Err"]

(***************************************************************************)
(* Flattener: ExpressionReconstructor with AdditionalOutput = Option<Value>.*)
(* A result is the pair (expression, additional output) and the Flattener  *)
(* state f: symbol table, handler, engine operations invoked, and whether  *)
(* an unwrap() has panicked (the pass is then aborted, no pair is returned).*)
(***************************************************************************)
Result(expr, val, f) == [expr |-> expr, val |-> val, f |-> f]

NoExpression == [node |-> "None"]

\* a panic unwinds through every caller
Panic(f) == Result(NoExpression, None, [f EXCEPT !.panicked = TRUE])

\* mutant: only a Const binding propagates its Value
reconstruct_identifier_const_only(f, input) ==
    LET var == lookup_variable(f.symbol_table, input.name)
    IN IF ~var.bound THEN Panic(f)
       ELSE LET val == IF var.declaration.kind = "Const" /\ var.declaration.value.some
                       THEN Some(var.declaration.value.v)
                       ELSE None
            IN Result(input, val, f)

reconstruct_identifier(f, input) ==
    LET var == lookup_variable(f.symbol_table, input.name)
    IN IF ~var.bound THEN Panic(f)
       ELSE LET val == IF var.declaration.kind \in {"Const", "Mut"} /\ var.declaration.value.some
                       THEN Some(var.declaration.value.v)
                       ELSE None
            IN Result(input, val, f)

reconstruct_literal(f, input) ==
    IF input.kind \in IntKinds
    THEN LET n == parse(input.kind, input.raw)
         IN IF n.ok THEN Result(input, Some(IntValue(input.kind, n.v, input.span)), f)
            ELSE Panic(f)
    ELSE IF input.kind = "Boolean"
    THEN Result(input, Some(BoolValue(input.raw = <<"true">>, input.span)), f)
    ELSE Result(input, Some(TextValue(input.kind, input.raw, input.span)), f)

\* mutant: Nor is the negation of the disjunction
Evaluate_nor_by_bitor(op, l, r, span) ==
    LET One(name, res) == [value |-> res, engine |-> <<name>>]
        NotOf(name, res) == IF ~res.ok THEN [value |-> res, engine |-> <<name>>]
                            ELSE [value |-> not(res.v, span), engine |-> <<name, "not">>]
    IN CASE op = "Add" -> One("add", add(l, r, span))
         [] op = "AddWrapped" -> One("add_wrapped", add_wrapped(l, r, span))
         [] op \in {"And", "BitwiseAnd"} -> One("bitand", bitand(l, r, span))
         [] op = "Div" -> One("div", div(l, r, span))
         [] op = "DivWrapped" -> One("div_wrapped", div_wrapped(l, r, span))
         [] op = "Eq" -> One("eq", eq(l, r, span))
         [] op = "Ge" -> One("ge", ge(l, r, span))
         [] op = "Gt" -> One("gt", gt(l, r, span))
         [] op = "Le" -> One("le", le(l, r, span))
         [] op = "Lt" -> One("lt", lt(l, r, span))
         [] op = "Mul" -> One("mul", mul(l, r, span))
         [] op = "MulWrapped" -> One("mul_wrapped", mul_wrapped(l, r, span))
         [] op = "Nand" -> NotOf("bitand", bitand(l, r, span))
         [] op = "Neq" -> NotOf("eq", eq(l, r, span))
         [] op = "Nor" -> NotOf("bitor", bitor(l, r, span))
         [] op \in {"Or", "BitwiseOr"} -> One("bitor", bitor(l, r, span))
         [] op = "Pow" -> One("pow", pow(l, r, span))
         [] op = "PowWrapped" -> One("pow_wrapped", pow_wrapped(l, r, span))
         [] op = "Shl" -> One("shl", shl(l, r, span))
         [] op = "ShlWrapped" -> One("shl_wrapped", shl_wrapped(l, r, span))
         [] op = "Shr" -> One("shr", shr(l, r, span))
         [] op = "ShrWrapped" -> One("shr_wrapped", shr_wrapped(l, r, span))
         [] op = "Sub" -> One("sub", sub(l, r, span))
         [] op = "SubWrapped" -> One("sub_wrapped", sub_wrapped(l, r, span))
         [] op = "Xor" -> One("xor", xor(l, r, span))

\* the engine operation(s) the operator selects: the final result and the
\* operations invoked, in order
Evaluate(op, l, r, span) ==
    LET One(name, res) == [value |-> res, engine |-> <<name>>]
        NotOf(name, res) == IF ~res.ok THEN [value |-> res, engine |-> <<name>>]
                            ELSE [value |-> not(res.v, span), engine |-> <<name, "not">>]
    IN CASE op = "Add" -> One("add", add(l, r, span))
         [] op = "AddWrapped" -> One("add_wrapped", add_wrapped(l, r, span))
         [] op \in {"And", "BitwiseAnd"} -> One("bitand", bitand(l, r, span))
         [] op = "Div" -> One("div", div(l, r, span))
         [] op = "DivWrapped" -> One("div_wrapped", div_wrapped(l, r, span))
         [] op = "Eq" -> One("eq", eq(l, r, span))
         [] op = "Ge" -> One("ge", ge(l, r, span))
         [] op = "Gt" -> One("gt", gt(l, r, span))
         [] op = "Le" -> One("le", le(l, r, span))
         [] op = "Lt" -> One("lt", lt(l, r, span))
         [] op = "Mul" -> One("mul", mul(l, r, span))
         [] op = "MulWrapped" -> One("mul_wrapped", mul_wrapped(l, r, span))
         [] op = "Nand" -> NotOf("bitand", bitand(l, r, span))
         [] op = "Neq" -> NotOf("eq", eq(l, r, span))
         [] op = "Nor" -> NotOf("bitand", bitand(l, r, span))
         [] op \in {"Or", "BitwiseOr"} -> One("bitor", bitor(l, r, span))
         [] op = "Pow" -> One("pow", pow(l, r, span))
         [] op = "PowWrapped" -> One("pow_wrapped", pow_wrapped(l, r, span))
         [] op = "Shl" -> One("shl", shl(l, r, span))
         [] op = "ShlWrapped" -> One("shl_wrapped", shl_wrapped(l, r, span))
         [] op = "Shr" -> One("shr", shr(l, r, span))
         [] op = "ShrWrapped" -> One("shr_wrapped", shr_wrapped(l, r, span))
         [] op = "Sub" -> One("sub", sub(l, r, span))
         [] op = "SubWrapped" -> One("sub_wrapped", sub_wrapped(l, r, span))
         [] op = "Xor" -> One("xor", xor(l, r, span))

RECURSIVE reconstruct_expression(_, _)
RECURSIVE reconstruct_binary(_, _)
RECURSIVE reconstruct_unary(_, _)
RECURSIVE reconstruct_ternary(_, _)
RECURSIVE reconstruct_call(_, _)
RECURSIVE reconstruct_arguments(_, _, _, _)

\* mutant: a folded Binary is returned as the node it was
reconstruct_binary_keeping_node(f, input) ==
    LET l == reconstruct_expression(f, input.left)
    IN IF l.f.panicked THEN Panic(l.f)
       ELSE LET r == reconstruct_expression(l.f, input.right)
            IN IF r.f.panicked THEN Panic(r.f)
               ELSE IF l.val.some /\ r.val.some
                       /\ ~is_supported_const_fold_type(l.val.v)
                       /\ ~is_supported_const_fold_type(r.val.v)
               THEN Result(input, None, r.f)
               ELSE IF l.val.some /\ r.val.some
               THEN LET e == Evaluate(input.op, l.val.v, r.val.v, input.span)
                        f1 == [r.f EXCEPT !.engine = @ \o e.engine]
                    IN IF ~e.value.ok
                       THEN Result(input, None, emit_err(f1, e.value.err))
                       ELSE Result(input, Some(e.value.v), f1)
               ELSE Result(input, None, r.f)

\* mutant: an engine error is dropped instead of emitted
reconstruct_binary_dropping_err(f, input) ==
    LET l == reconstruct_expression(f, input.left)
    IN IF l.f.panicked THEN Panic(l.f)
       ELSE LET r == reconstruct_expression(l.f, input.right)
            IN IF r.f.panicked THEN Panic(r.f)
               ELSE IF l.val.some /\ r.val.some
                       /\ ~is_supported_const_fold_type(l.val.v)
                       /\ ~is_supported_const_fold_type(r.val.v)
               THEN Result(input, None, r.f)
               ELSE IF l.val.some /\ r.val.some
               THEN LET e == Evaluate(input.op, l.val.v, r.val.v, input.span)
                        f1 == [r.f EXCEPT !.engine = @ \o e.engine]
                    IN IF ~e.value.ok
                       THEN Result(input, None, f1)
                       ELSE Result(from_value(e.value.v), Some(e.value.v), f1)
               ELSE Result(input, None, r.f)

\* mutant: the engine is asked whenever both operands yield a Value
reconstruct_binary_unguarded(f, input) ==
    LET l == reconstruct_expression(f, input.left)
    IN IF l.f.panicked THEN Panic(l.f)
       ELSE LET r == reconstruct_expression(l.f, input.right)
            IN IF r.f.panicked THEN Panic(r.f)
               ELSE IF l.val.some /\ r.val.some
               THEN LET e == Evaluate(input.op, l.val.v, r.val.v, input.span)
                        f1 == [r.f EXCEPT !.engine = @ \o e.engine]
                    IN IF ~e.value.ok
                       THEN Result(input, None, emit_err(f1, e.value.err))
                       ELSE Result(from_value(e.value.v), Some(e.value.v), f1)
               ELSE Result(input, None, r.f)

\* mutant: the left operand is reconstructed once for its expression and once
\* more for its Value
reconstruct_binary_revisiting_left(f, input) ==
    LET l0 == reconstruct_expression(f, input.left)
        l == IF l0.f.panicked THEN l0 ELSE reconstruct_expression(l0.f, input.left)
    IN IF l.f.panicked THEN Panic(l.f)
       ELSE LET r == reconstruct_expression(l.f, input.right)
            IN IF r.f.panicked THEN Panic(r.f)
               ELSE IF l.val.some /\ r.val.some
                       /\ ~is_supported_const_fold_type(l.val.v)
                       /\ ~is_supported_const_fold_type(r.val.v)
               THEN Result(input, None, r.f)
               ELSE IF l.val.some /\ r.val.some
               THEN LET e == Evaluate(input.op, l.val.v, r.val.v, input.span)
                        f1 == [r.f EXCEPT !.engine = @ \o e.engine]
                    IN IF ~e.value.ok
                       THEN Result(input, None, emit_err(f1, e.value.err))
                       ELSE Result(from_value(e.value.v), Some(e.value.v), f1)
               ELSE Result(input, None, r.f)

reconstruct_binary(f, input) ==
    LET l == reconstruct_expression(f, input.left)
    IN IF l.f.panicked THEN Panic(l.f)
       ELSE LET r == reconstruct_expression(l.f, input.right)
            IN IF r.f.panicked THEN Panic(r.f)
               ELSE IF l.val.some /\ r.val.some
                       /\ ~is_supported_const_fold_type(l.val.v)
                       /\ ~is_supported_const_fold_type(r.val.v)
               THEN Result(input, None, r.f)
               ELSE IF l.val.some /\ r.val.some
               THEN LET e == Evaluate(input.op, l.val.v, r.val.v, input.span)
                        f1 == [r.f EXCEPT !.engine = @ \o e.engine]
                    IN IF ~e.value.ok
                       THEN Result(input, None, emit_err(f1, e.value.err))
                       ELSE Result(from_value(e.value.v), Some(e.value.v), f1)
               ELSE Result(input, None, r.f)

\* mutant: a folded Unary collapses to the Literal of its Value, as a Binary does
reconstruct_unary_collapsing(f, input) ==
    LET rc == reconstruct_expression(f, input.receiver)
    IN IF rc.f.panicked THEN Panic(rc.f)
       ELSE IF rc.val.some /\ input.op \in {"Negate", "Not"} /\ is_supported_const_fold_type(rc.val.v)
       THEN LET out == IF input.op = "Negate" THEN neg(rc.val.v, input.span) ELSE not(rc.val.v, input.span)
                f1 == [rc.f EXCEPT !.engine = Append(@, IF input.op = "Negate" THEN "neg" ELSE "not")]
            IN IF out.ok
               THEN Result(from_value(out.v), Some(out.v), f1)
               ELSE Result(input, None, emit_err(f1, out.err))
       ELSE Result(UnaryExpression(rc.expr, input.op, input.span), None, rc.f)

reconstruct_unary(f, input) ==
    LET rc == reconstruct_expression(f, input.receiver)
    IN IF rc.f.panicked THEN Panic(rc.f)
       ELSE IF rc.val.some /\ input.op \in {"Negate", "Not"} /\ is_supported_const_fold_type(rc.val.v)
       THEN LET out == IF input.op = "Negate" THEN neg(rc.val.v, input.span) ELSE not(rc.val.v, input.span)
                f1 == [rc.f EXCEPT !.engine = Append(@, IF input.op = "Negate" THEN "neg" ELSE "not")]
            IN IF out.ok
               THEN Result(UnaryExpression(rc.expr, input.op, input.span), Some(out.v), f1)
               ELSE Result(input, None, emit_err(f1, out.err))
       ELSE Result(UnaryExpression(rc.expr, input.op, input.span), None, rc.f)

\* the reconstructed arguments i.. appended to acc, their outputs discarded
reconstruct_arguments(f, arguments, i, acc) ==
    IF i > Len(arguments) THEN Result(acc, None, f)
    ELSE LET a == reconstruct_expression(f, arguments[i])
         IN IF a.f.panicked THEN Panic(a.f)
            ELSE reconstruct_arguments(a.f, arguments, i + 1, Append(acc, a.expr))

reconstruct_call(f, input) ==
    LET args == reconstruct_arguments(f, input.arguments, 1, <<>>)
    IN IF args.f.panicked THEN Panic(args.f)
       ELSE Result(CallExpression(input.function, args.expr, input.span), None, args.f)

\* not overridden by the Flattener: the default of ExpressionReconstructor
reconstruct_ternary(f, input) ==
    LET c == reconstruct_expression(f, input.condition)
    IN IF c.f.panicked THEN Panic(c.f)
       ELSE LET t == reconstruct_expression(c.f, input.if_true)
            IN IF t.f.panicked THEN Panic(t.f)
               ELSE LET e == reconstruct_expression(t.f, input.if_false)
                    IN IF e.f.panicked THEN Panic(e.f)
                       ELSE Result(TernaryExpression(c.expr, t.expr, e.expr, input.span), None, e.f)

\* not overridden by the Flattener: the default of ExpressionReconstructor
reconstruct_err(f, input) == Result(input, None, f)

reconstruct_expression(f, input) ==
    CASE input.node = "Identifier" -> reconstruct_identifier(f, input)
      [] input.node = "Literal" -> reconstruct_literal(f, input)
      [] input.node = "Binary" -> reconstruct_binary(f, input)
      [] input.node = "Unary" -> reconstruct_unary(f, input)
      [] input.node = "Ternary" -> reconstruct_ternary(f, input)
      [] input.node = "Call" -> reconstruct_call(f, input)
      [] input.node = "Err" -> reconstruct_err(f, input)

(***************************************************************************)
(* Inputs of the Flattener.                                                *)
(***************************************************************************)
\* arguments per generated Call
MaxArgs == 2

U8Literals == {Literal("U8", raw, 0) : raw \in {<<"0">>, <<"1">>, <<"3">>, <<"2", "5", "5">>, <<"2", "5", "6">>}}

I8Literals == {Literal("I8", <<"1">>, 0)}

BooleanLiterals == {Literal("Boolean", <<"true">>, 0), Literal("Boolean", <<"false">>, 0)}

TextLiterals == {Literal("Address", <<"aleo1">>, 0), Literal("String", <<"s">>, 0)}

FlatLeaves ==
    U8Literals \cup I8Literals \cup BooleanLiterals \cup TextLiterals \cup {Identifier(n) : n \in Names}

\* every operator over every pair of leaves
LeafBinaries == {BinaryExpression(l, r, op, 1) : l \in FlatLeaves, r \in FlatLeaves, op \in BinaryOperations}

\* nested operands: a sum, a quotient or a conjunction of constants
InnerOperands == {Literal("U8", <<"1">>, 0), Literal("U8", <<"2", "5", "5">>, 0), Literal("U8", <<"0">>, 0),
                  Literal("Boolean", <<"true">>, 0)}

InnerBinaries ==
    {BinaryExpression(l, r, op, 2) : l \in InnerOperands, r \in InnerOperands, op \in {"Add", "Div", "And"}}

OuterOperands == {Literal("U8", <<"1">>, 0), Identifier("x"), Identifier("y")}

NestedBinaries ==
    {BinaryExpression(l, r, op, 1) : l \in InnerBinaries, r \in OuterOperands, op \in {"Add", "Eq"}}
    \cup {BinaryExpression(l, r, op, 1) : l \in OuterOperands, r \in InnerBinaries, op \in {"Add", "Eq"}}
    \cup {BinaryExpression(l, r, "Add", 1) :
             l \in {b \in InnerBinaries : b.op # "And"}, r \in {b \in InnerBinaries : b.op = "Add"}}

Binaries == LeafBinaries \cup NestedBinaries

Unaries ==
    {UnaryExpression(rc, op, 1) : rc \in FlatLeaves \cup InnerBinaries, op \in UnaryOperations}
    \cup {UnaryExpression(UnaryExpression(rc, op, 2), op, 1) :
             rc \in {Literal("I8", <<"1">>, 0), Literal("Boolean", <<"true">>, 0)}, op \in UnaryOperations}

TernaryOperands ==
    {Literal("Boolean", <<"true">>, 0), Identifier("x"),
     BinaryExpression(Literal("U8", <<"1">>, 0), Literal("U8", <<"3">>, 0), "Add", 2),
     BinaryExpression(Literal("U8", <<"1">>, 0), Literal("U8", <<"0">>, 0), "Div", 2)}

Ternaries == {TernaryExpression(c, t, e, 1) : c \in TernaryOperands, t \in TernaryOperands, e \in TernaryOperands}

RECURSIVE ArgLists(_)
\* argument lists of exactly k expressions
ArgLists(k) ==
    IF k = 0 THEN {<<>>} ELSE {Append(a, e) : a \in ArgLists(k - 1), e \in TernaryOperands}

Calls == {CallExpression(Identifier("h"), a, 1) : a \in UNION {ArgLists(k) : k \in 0..MaxArgs}}

(***************************************************************************)
(* The Flattener as a state machine.                                       *)
(***************************************************************************)
Flattener == [symbol_table |-> symbol_table, handler |-> handler, engine |-> <<>>, panicked |-> FALSE]

Folded(kind, mode, v) == VariableSymbol(IF v.some THEN v.v.kind ELSE "U8", 0, Declaration(kind, mode, v))

\* the bindings the Flattener finds: with and without a folded Value, inputs,
\* a binding shadowed by a nearer one, and a name that is bound nowhere
FlatTables ==
    {<<[x |-> Folded("Const", "None", Some(IntValue("U8", 2, 0))),
        y |-> Folded("Mut", "None", Some(BoolValue(TRUE, 0)))]>>,
     <<[x |-> Folded("Mut", "None", Some(IntValue("I8", -128, 0))),
        y |-> Folded("Input", "Public", None)]>>,
     <<[x |-> Folded("Const", "None", Some(TextValue("Address", <<"aleo1">>, 0))),
        y |-> Folded("Const", "None", None)]>>,
     <<[x |-> Folded("Const", "None", Some(IntValue("U8", 2, 0))), y |-> NoSym],
       [x |-> Folded("Mut", "None", None), y |-> NoSym]>>}

FlatInit ==
    /\ symbol_table \in FlatTables
    /\ handler = <<>>
    /\ has_return = FALSE
    /\ parent = "f"
    /\ visits = <<>>
    /\ call = NoCall
    /\ output = NoOutput
    /\ engine = <<>>
    /\ panicked = FALSE

\* reconstruct_<op> runs on `input` and returns r
Reconstructed(op, input, r) ==
    /\ handler' = r.f.handler
    /\ symbol_table' = r.f.symbol_table
    /\ engine' = r.f.engine
    /\ panicked' = r.f.panicked
    /\ output' = [expr |-> r.expr, val |-> r.val]
    /\ call' = [op |-> op, input |-> input]
    /\ UNCHANGED <<has_return, parent, visits>>

ReconstructIdentifier ==
    Idle /\ \E e \in {Identifier(n) : n \in Names} :
        Reconstructed("reconstruct_identifier", e, reconstruct_identifier(Flattener, e))

ReconstructLiteral ==
    Idle /\ \E e \in U8Literals \cup I8Literals \cup BooleanLiterals \cup TextLiterals :
        Reconstructed("reconstruct_literal", e, reconstruct_literal(Flattener, e))

ReconstructBinary == Idle /\ \E e \in Binaries : Reconstructed("reconstruct_binary", e, reconstruct_binary(Flattener, e))

ReconstructUnary == Idle /\ \E e \in Unaries : Reconstructed("reconstruct_unary", e, reconstruct_unary(Flattener, e))

ReconstructTernary == Idle /\ \E e \in Ternaries : Reconstructed("reconstruct_ternary", e, reconstruct_ternary(Flattener, e))

ReconstructCall == Idle /\ \E e \in Calls : Reconstructed("reconstruct_call", e, reconstruct_call(Flattener, e))

ReconstructErr == Idle /\ Reconstructed("reconstruct_err", ErrExpression, reconstruct_expression(Flattener, ErrExpression))

FlatNext ==
    \/ ReconstructIdentifier
    \/ ReconstructLiteral
    \/ ReconstructBinary
    \/ ReconstructUnary
    \/ ReconstructTernary
    \/ ReconstructCall
    \/ ReconstructErr
    \/ Resume

FlatSpec == FlatInit /\ [][FlatNext]_vars

(***************************************************************************)
(* Properties of the Flattener.                                            *)
(***************************************************************************)
\* the Values the operands of the Binary `input` yield in the state before the step
LeftOf(input) == reconstruct_expression(Flattener, input.left)

RightOf(input) == reconstruct_expression(LeftOf(input).f, input.right)

BothYield(input) ==
    /\ ~LeftOf(input).f.panicked /\ ~RightOf(input).f.panicked
    /\ LeftOf(input).val.some /\ RightOf(input).val.some

\* the value of an integer, 0 for any other Value
NumOf(v) == IF v.kind \in IntKinds THEN v.n ELSE 0

\* C1: a Binary over two Values, one of them fold-eligible, whose engine
\* operation succeeds is returned as the Literal of the result, the result is
\* the additional output, and no diagnostic is emitted
Thm_C1_BinaryFolds ==
    [][(call'.op = "reconstruct_binary" /\ BothYield(call'.input)) =>
         LET input == call'.input
             lv == LeftOf(input).val.v
             rv == RightOf(input).val.v
             res == Evaluate(input.op, lv, rv, input.span).value
         IN ((is_supported_const_fold_type(lv) \/ is_supported_const_fold_type(rv)) /\ res.ok) =>
              /\ ~panicked'
              /\ output'.expr.node = "Literal"
              /\ output'.expr.kind = res.v.kind
              /\ output'.expr.span = input.span
              /\ reconstruct_literal(Flattener, output'.expr).val = Some(res.v)
              /\ output'.val = Some(res.v)
              /\ handler' = handler
              /\ (input.op = "Add" /\ lv.kind = "U8" /\ lv.n = 1 /\ rv.kind = "U8" /\ rv.n = 3) =>
                   output'.expr = Literal("U8", <<"4">>, input.span)]_vars

\* 1 + 3 over U8 literals was folded to the Literal 4
Wit_C1 ==
    /\ call.op = "reconstruct_binary"
    /\ call.input.op = "Add"
    /\ call.input.left = Literal("U8", <<"1">>, 0)
    /\ call.input.right = Literal("U8", <<"3">>, 0)
    /\ output.expr = Literal("U8", <<"4">>, 1)
    /\ output.val = Some(IntValue("U8", 4, 1))
    /\ handler = <<>>

\* C2: U8 255 + 1 with Add gives one diagnostic, the original Binary and no
\* output; with AddWrapped it gives no diagnostic and folds to the Literal 0.
\* The wrapped operators give the result modulo 2^8 and never fail on overflow
Thm_C2_CheckedVsWrapped ==
    [][(call'.op = "reconstruct_binary" /\ BothYield(call'.input)) =>
         LET input == call'.input
             lv == LeftOf(input).val.v
             rv == RightOf(input).val.v
             ints == lv.kind \in IntKinds /\ rv.kind = lv.kind
             exact == CASE input.op = "AddWrapped" -> NumOf(lv) + NumOf(rv)
                        [] input.op = "SubWrapped" -> NumOf(lv) - NumOf(rv)
                        [] input.op = "MulWrapped" -> NumOf(lv) * NumOf(rv)
                        [] OTHER -> 0
         IN /\ (lv = IntValue("U8", 255, 0) /\ rv = IntValue("U8", 1, 0) /\ input.op = "Add") =>
                 /\ Len(handler') = Len(handler) + 1
                 /\ SubSeq(handler', 1, Len(handler)) = handler
                 /\ output' = [expr |-> input, val |-> None]
            /\ (lv = IntValue("U8", 255, 0) /\ rv = IntValue("U8", 1, 0) /\ input.op = "AddWrapped") =>
                 /\ handler' = handler
                 /\ output' = [expr |-> Literal("U8", <<"0">>, input.span),
                               val |-> Some(IntValue("U8", 0, input.span))]
            /\ (ints /\ input.op \in {"AddWrapped", "SubWrapped", "MulWrapped"}) =>
                 /\ handler' = handler
                 /\ output'.val.some
                 /\ output'.val.v.kind = lv.kind
                 /\ InRange(lv.kind, output'.val.v.n)
                 /\ (output'.val.v.n - exact) % 256 = 0
            /\ (ints /\ input.op \in {"PowWrapped", "ShlWrapped", "ShrWrapped"}) =>
                 /\ handler' = handler
                 /\ output'.val.some
                 /\ InRange(lv.kind, output'.val.v.n)
            /\ (ints /\ input.op = "DivWrapped") =>
                 (handler' = handler <=> rv.n # 0)]_vars

\* 255 +wrapped 1 over U8 literals was folded to the Literal 0
Wit_C2 ==
    /\ call.op = "reconstruct_binary"
    /\ call.input.op = "AddWrapped"
    /\ call.input.left = Literal("U8", <<"2", "5", "5">>, 0)
    /\ call.input.right = Literal("U8", <<"1">>, 0)
    /\ output.expr = Literal("U8", <<"0">>, 1)
    /\ output.val = Some(IntValue("U8", 0, 1))
    /\ handler = <<>>

\* C3: a Binary over two Values of which neither is fold-eligible is returned
\* unchanged with no output, whatever the operator; the engine is not invoked
\* and no diagnostic is emitted
Thm_C3_NonFoldable ==
    [][(call'.op = "reconstruct_binary" /\ BothYield(call'.input)) =>
         LET input == call'.input
             lv == LeftOf(input).val.v
             rv == RightOf(input).val.v
         IN (~is_supported_const_fold_type(lv) /\ ~is_supported_const_fold_type(rv)) =>
              /\ input.op \in BinaryOperations
              /\ output' = [expr |-> input, val |-> None]
              /\ engine' = <<>>
              /\ handler' = handler
              /\ ~panicked']_vars

\* a Binary of an Address literal and a constant bound to an Address was left as it was
Wit_C3 ==
    /\ call.op = "reconstruct_binary"
    /\ call.input.left = Literal("Address", <<"aleo1">>, 0)
    /\ call.input.right = Identifier("x")
    /\ call.input.op = "Eq"
    /\ lookup_variable(symbol_table, "x").declaration.value = Some(TextValue("Address", <<"aleo1">>, 0))
    /\ output = [expr |-> call.input, val |-> None]
    /\ engine = <<>>
    /\ handler = <<>>

\* C4: a Unary whose receiver yields a fold-eligible Value and whose neg / not
\* succeeds is returned as a Unary of the same operator and span over the
\* reconstructed receiver, and the computed Value is the additional output
Thm_C4_UnaryKeepsShape ==
    [][call'.op = "reconstruct_unary" =>
         LET input == call'.input
             rc == reconstruct_expression(Flattener, input.receiver)
             res == IF input.op = "Negate" THEN neg(rc.val.v, input.span) ELSE not(rc.val.v, input.span)
         IN (~rc.f.panicked /\ rc.val.some /\ is_supported_const_fold_type(rc.val.v) /\ res.ok) =>
              /\ output'.expr.node = "Unary"
              /\ output'.expr.op = input.op
              /\ output'.expr.span = input.span
              /\ output'.expr.receiver = rc.expr
              /\ output'.val = Some(res.v)
              /\ (input.op = "Not" /\ input.receiver = Literal("Boolean", <<"true">>, 0)) =>
                   output' = [expr |-> input, val |-> Some(BoolValue(FALSE, input.span))]]_vars

\* the Not of a folded conjunction: the receiver became a Literal, the node stayed a Unary
Wit_C4 ==
    /\ call.op = "reconstruct_unary"
    /\ call.input.op = "Not"
    /\ call.input.receiver.node = "Binary"
    /\ output.expr.node = "Unary"
    /\ output.expr.receiver = Literal("Boolean", <<"true">>, 2)
    /\ output.val = Some(BoolValue(FALSE, 1))

(***************************************************************************)
(* Properties of the statement type checker.                               *)
(***************************************************************************)
\* the diagnostics appended by the step
NewErrs == SubSeq(handler', Len(handler) + 1, Len(handler'))

\* the handler only grows
Appended == Len(handler') >= Len(handler) /\ SubSeq(handler', 1, Len(handler)) = handler

RECURSIVE DefinedIn(_, _)
\* the names bound by a Definition in statements i.. of a Block, nested ones included
DefinedIn(b, i) ==
    IF i > Len(b) THEN {}
    ELSE DefinedIn(b, i + 1) \cup
         (CASE b[i].stmt = "Definition" -> {b[i].variable_name}
            [] b[i].stmt = "Block" -> DefinedIn(b[i].statements, 1)
            [] b[i].stmt = "Conditional" ->
                 DefinedIn(b[i].block, 1) \cup
                 (IF b[i].next.some THEN DefinedIn(<<b[i].next.v>>, 1) ELSE {})
            [] OTHER -> {})

IsCannotAssign(e) == e.code \in {"cannot_assign_to_const_var", "cannot_assign_to_const_input"}

IsRedeclared(e) == e.code = "redeclared"

\* C5: visiting a Block leaves the scope depth as it was, and a name defined
\* inside the Block resolves afterwards only to the binding it had before
Thm_C5_ScopeDiscipline ==
    [][call'.op = "visit_block" =>
         /\ Len(symbol_table') = Len(symbol_table)
         /\ \A n \in DefinedIn(call'.input, 1) :
               /\ lookup_variable(symbol_table', n).bound => lookup_variable(symbol_table, n).bound
               /\ lookup_variable(symbol_table', n) = lookup_variable(symbol_table, n)]_vars

\* a Block with a nested block and a Definition was visited, with a diagnostic inside
Wit_C5 ==
    /\ call.op = "visit_block"
    /\ \E i \in 1..Len(call.input) : call.input[i].stmt \in {"Block", "Conditional"}
    /\ \E n \in DefinedIn(call.input, 1) : ~lookup_variable(symbol_table, n).bound
    /\ handler # <<>>

\* C6: a Definition of a name bound in an enclosing scope is no redeclaration and
\* its binding is the one an Assign inside the Block finds; a second Definition of
\* the name in the same Block gives exactly one redeclaration, on the second
Thm_C6_ShadowVsRedeclare ==
    [][(call'.op = "visit_block" /\ Len(call'.input) = 2 /\ call'.input[1].stmt = "Definition") =>
         LET def == call'.input[1]
             snd == call'.input[2]
             name == def.variable_name
         IN /\ (snd.stmt = "Assign" /\ snd.assignee = name /\ lookup_variable(symbol_table, name).bound) =>
                  /\ Appended
                  /\ SelectSeq(NewErrs, IsRedeclared) = <<>>
                  /\ SelectSeq(NewErrs, IsCannotAssign) =
                       (IF def.declaration_type = "Const"
                        THEN <<cannont_assign_to_const_var(name, def.span)>> ELSE <<>>)
            /\ (snd.stmt = "Definition" /\ snd.variable_name = name) =>
                  /\ Appended
                  /\ SelectSeq(NewErrs, IsRedeclared) = <<[code |-> "redeclared", name |-> name, span |-> snd.span]>>]_vars

\* a mutable x shadowed a constant x of the enclosing scope and was assigned to
Wit_C6 ==
    /\ call.op = "visit_block"
    /\ Len(call.input) = 2
    /\ call.input[1].stmt = "Definition" /\ call.input[1].declaration_type = "Let"
    /\ call.input[2].stmt = "Assign" /\ call.input[2].assignee = call.input[1].variable_name
    /\ lookup_variable(symbol_table, call.input[1].variable_name).bound
    /\ lookup_variable(symbol_table, call.input[1].variable_name).declaration.kind = "Const"
    /\ handler = <<>>

\* C7: assigning to a Const binding or a Const input gives exactly one
\* cannot-assign diagnostic of that kind and the value is still checked against
\* the declared type; a Mut binding or another input gives none
Thm_C7_ConstAssign ==
    [][(call'.op = "visit_assign" /\ lookup_variable(symbol_table, call'.input.assignee).bound) =>
         LET name == call'.input.assignee
             var == lookup_variable(symbol_table, name)
         IN /\ Appended
            /\ visits' = <<<<call'.input.value, Some(var.type_)>>>>
            /\ SelectSeq(NewErrs, IsCannotAssign) =
                 (IF var.declaration.kind = "Const"
                  THEN <<cannont_assign_to_const_var(name, var.span)>>
                  ELSE IF var.declaration.kind = "Input" /\ var.declaration.mode = "Const"
                  THEN <<cannont_assign_to_const_input(name, var.span)>>
                  ELSE <<>>)]_vars

\* an assignment to a constant was reported and its value checked, with a mismatch
Wit_C7 ==
    /\ call.op = "visit_assign"
    /\ Len(handler) = 2
    /\ handler[1].code = "cannot_assign_to_const_var"
    /\ handler[2].code = "type_mismatch"
    /\ visits # <<>>

\* C8: an assignee bound nowhere gives exactly one unknown-symbol diagnostic,
\* the value is not visited, the Symbol Table is unchanged, and the next
\* statement of the Block is visited
Thm_C8_UnknownAssignee ==
    [][/\ (call'.op = "visit_assign" /\ ~lookup_variable(symbol_table, call'.input.assignee).bound) =>
            /\ handler' = Append(handler, unknown_sym(call'.input.assignee, call'.input.span))
            /\ visits' = <<>>
            /\ symbol_table' = symbol_table
       /\ (call'.op = "visit_block" /\ Len(call'.input) = 2 /\ call'.input[1].stmt = "Assign"
              /\ ~lookup_variable(symbol_table, call'.input[1].assignee).bound) =>
            LET fst == call'.input[1]
                snd == call'.input[2]
            IN /\ Appended
               /\ NewErrs # <<>>
               /\ NewErrs[1] = unknown_sym(fst.assignee, fst.span)
               /\ snd.stmt = "Return" => has_return' /\ Len(visits') = 1 /\ visits'[1][1] = snd.expression
               /\ snd.stmt = "Definition" => visits' = <<<<snd.value, Some(snd.type_)>>>>
               /\ (snd.stmt = "Assign" /\ ~lookup_variable(symbol_table, snd.assignee).bound) =>
                    NewErrs = <<unknown_sym(fst.assignee, fst.span), unknown_sym(snd.assignee, snd.span)>>
               /\ snd.stmt = "Iteration" => Len(visits') = 2]_vars

\* a Block whose first statement assigns to an unknown name went on to its Return
Wit_C8 ==
    /\ call.op = "visit_block"
    /\ Len(call.input) = 2
    /\ call.input[1].stmt = "Assign"
    /\ call.input[2].stmt = "Return"
    /\ handler # <<>> /\ handler[1].code = "unknown_sym"
    /\ has_return

\* C9: visit_return sets has_return whatever the expression is, and visits the
\* expression with the output type of the enclosing function as the hint;
\* no step resets has_return
Thm_C9_Return ==
    [][/\ has_return => has_return'
       /\ call'.op = "visit_return" =>
            /\ has_return'
            /\ visits' = <<<<call'.input.expression, Some(lookup_fn(parent).v.output)>>>>
       /\ (call'.op = "visit_block" /\ \E i \in 1..Len(call'.input) : call'.input[i].stmt = "Return") =>
            has_return']_vars

\* a return of a U8 literal in a function declared to return Boolean
Wit_C9 ==
    /\ call.op = "visit_return"
    /\ call.input.expression.kind = "U8"
    /\ parent = "f"
    /\ has_return
    /\ handler # <<>> /\ handler[Len(handler)].code = "type_mismatch"

\* C10 (as claimed): once an Iteration has been visited, its loop variable no
\* longer resolves to the binding the Iteration introduced
Cex_C10_LoopVariableScoped ==
    call.op = "visit_iteration" =>
        lookup_variable(symbol_table, call.input.variable) #
            VariableSymbol(call.input.type_, call.input.span, Declaration("Const", "None", None))

\* C11 (as claimed): when an Iteration whose body assigns to a name that
\* resolves to a Const binding has been visited, the cannot-assign diagnostic
\* of that assignment is in the handler
Cex_C11_LoopBodyChecked ==
    (/\ call.op = "visit_iteration"
     /\ call.input.block # <<>>
     /\ call.input.block[1].stmt = "Assign"
     /\ lookup_variable(symbol_table, call.input.block[1].assignee).bound
     /\ lookup_variable(symbol_table, call.input.block[1].assignee).declaration.kind = "Const") =>
        \E i \in 1..Len(handler) :
            IsCannotAssign(handler[i]) /\ handler[i].name = call.input.block[1].assignee

RECURSIVE DiagsInOrder(_, _, _)
\* the diagnostics statements i.. of a Block cause, statement by statement, each
\* one visited in the state its predecessors left
DiagsInOrder(d, b, i) ==
    IF i > Len(b) THEN <<>>
    ELSE LET d1 == visit_statement(d, b[i])
         IN SubSeq(d1.handler, Len(d.handler) + 1, Len(d1.handler)) \o DiagsInOrder(d1, b, i + 1)

RECURSIVE SpansOf(_)
\* the spans of the statements in the subtree of a statement
SpansOf(s) ==
    CASE s.stmt = "Block" -> UNION {SpansOf(s.statements[i]) : i \in 1..Len(s.statements)}
      [] s.stmt = "Conditional" ->
           UNION {SpansOf(s.block[i]) : i \in 1..Len(s.block)}
           \cup (IF s.next.some THEN SpansOf(s.next.v) ELSE {})
      [] s.stmt \in {"Definition", "Assign", "Iteration"} -> {s.span}
      [] OTHER -> {}

\* diagnostics that carry the span of the statement that caused them
AtStatement(e) == e.code \in {"unknown_sym", "redeclared"}

\* the positions in Block b of the statements whose subtree holds span sp
PositionsOf(b, sp) == {i \in 1..Len(b) : sp \in SpansOf(b[i])}

\* C12: the diagnostics a Block appends are those of its statements taken in
\* source order, each statement's diagnostics (nested blocks included) before
\* those of every later statement; the appended sequence is thereby a function
\* of the state and the Block, so a second run gives the same one
Thm_C12_DiagnosticOrder ==
    [][call'.op = "visit_block" =>
         LET b == call'.input
             d0 == [Director EXCEPT !.symbol_table = push_variable_scope(@)]
             at == SelectSeq(NewErrs, AtStatement)
         IN /\ Appended
            /\ NewErrs = DiagsInOrder(d0, b, 1)
            /\ \A i, j \in 1..Len(at) :
                  i < j => \A p \in PositionsOf(b, at[i].span), q \in PositionsOf(b, at[j].span) : p <= q
            /\ \A i \in 1..Len(at) : PositionsOf(b, at[i].span) # {}]_vars

\* a Block whose two statements each caused a diagnostic, the first statement's first
Wit_C12 ==
    /\ call.op = "visit_block"
    /\ Len(call.input) = 2
    /\ call.input[1].stmt = "Assign" /\ call.input[2].stmt = "Assign"
    /\ handler = <<unknown_sym(call.input[1].assignee, 1), unknown_sym(call.input[2].assignee, 2)>>

\* C13 (as claimed): whatever expression a reconstruct method was called on, the
\* pass was not aborted and an expression tree was returned
Cex_C13_NeverAborts ==
    call.op \in {"reconstruct_identifier", "reconstruct_literal", "reconstruct_binary", "reconstruct_unary",
                 "reconstruct_ternary", "reconstruct_call", "reconstruct_err"} =>
        ~panicked /\ output.expr # NoExpression

ReconstructOps ==
    {"reconstruct_identifier", "reconstruct_literal", "reconstruct_binary", "reconstruct_unary",
     "reconstruct_ternary", "reconstruct_call", "reconstruct_err"}

\* the outcome of the engine on a Unary whose receiver has the Value v
UnaryOutcome(op, v, span) == IF op = "Negate" THEN neg(v, span) ELSE not(v, span)

RECURSIVE ConstantOf(_)
\* the compile-time Value of an expression, None where it has none
ConstantOf(e) ==
    CASE e.node = "Identifier" ->
           IF lookup_variable(symbol_table, e.name).bound THEN reconstruct_identifier(Flattener, e).val ELSE None
      [] e.node = "Literal" -> reconstruct_literal(Flattener, e).val
      [] e.node = "Binary" ->
           LET l == ConstantOf(e.left)
               r == ConstantOf(e.right)
           IN IF l.some /\ r.some
                 /\ (is_supported_const_fold_type(l.v) \/ is_supported_const_fold_type(r.v))
                 /\ Evaluate(e.op, l.v, r.v, e.span).value.ok
              THEN Some(Evaluate(e.op, l.v, r.v, e.span).value.v)
              ELSE None
      [] e.node = "Unary" ->
           LET rc == ConstantOf(e.receiver)
           IN IF rc.some /\ is_supported_const_fold_type(rc.v) /\ UnaryOutcome(e.op, rc.v, e.span).ok
              THEN Some(UnaryOutcome(e.op, rc.v, e.span).v)
              ELSE None
      [] OTHER -> None

RECURSIVE FailuresIn(_, _)
RECURSIVE Failures(_)
\* the engine errors of the failing constant subexpressions of the expressions
\* i.. of a sequence
FailuresIn(es, i) == IF i > Len(es) THEN <<>> ELSE Failures(es[i]) \o FailuresIn(es, i + 1)

\* the engine errors of the constant subexpressions of e whose operands have
\* Values and whose evaluation fails, operands before the expression itself
Failures(e) ==
    CASE e.node = "Binary" ->
           LET l == ConstantOf(e.left)
               r == ConstantOf(e.right)
           IN Failures(e.left) \o Failures(e.right) \o
              (IF l.some /\ r.some
                  /\ (is_supported_const_fold_type(l.v) \/ is_supported_const_fold_type(r.v))
                  /\ ~Evaluate(e.op, l.v, r.v, e.span).value.ok
               THEN <<Evaluate(e.op, l.v, r.v, e.span).value.err>>
               ELSE <<>>)
      [] e.node = "Unary" ->
           LET rc == ConstantOf(e.receiver)
           IN Failures(e.receiver) \o
              (IF rc.some /\ is_supported_const_fold_type(rc.v) /\ ~UnaryOutcome(e.op, rc.v, e.span).ok
               THEN <<UnaryOutcome(e.op, rc.v, e.span).err>>
               ELSE <<>>)
      [] e.node = "Ternary" -> Failures(e.condition) \o Failures(e.if_true) \o Failures(e.if_false)
      [] e.node = "Call" -> FailuresIn(e.arguments, 1)
      [] OTHER -> <<>>

RECURSIVE FullyFolded(_)
RECURSIVE FullyFoldedIn(_, _)
\* no expression i.. of a sequence holds a Binary that has a compile-time Value
FullyFoldedIn(es, i) == i > Len(es) \/ (FullyFolded(es[i]) /\ FullyFoldedIn(es, i + 1))

\* no Binary subexpression of e has a compile-time Value
FullyFolded(e) ==
    CASE e.node = "Binary" -> ~ConstantOf(e).some /\ FullyFolded(e.left) /\ FullyFolded(e.right)
      [] e.node = "Unary" -> FullyFolded(e.receiver)
      [] e.node = "Ternary" -> FullyFolded(e.condition) /\ FullyFolded(e.if_true) /\ FullyFolded(e.if_false)
      [] e.node = "Call" -> FullyFoldedIn(e.arguments, 1)
      [] OTHER -> TRUE

\* C15 (as claimed): in the tree a flattening returns, no Binary whose operands
\* are constants and whose evaluation succeeds is left, wherever it occurs
Cex_C15_ExhaustiveFolding ==
    (call.op \in ReconstructOps /\ ~panicked) => FullyFolded(output.expr)

(***************************************************************************)
(* The default Reconstructor: ExpressionReconstructor, StatementReconstructor*)
(* and ProgramReconstructor with no method overridden.  It has no state; an *)
(* expression method returns the pair (expression, additional output), a    *)
(* statement, block, function or program method returns the node.           *)
(***************************************************************************)
\* Default::default() of the AdditionalOutput type
Default == None

Pair(expr, val) == [expr |-> expr, val |-> val]

RECURSIVE default_reconstruct_expression(_)
RECURSIVE default_reconstruct_arguments(_, _)

default_reconstruct_identifier(input) == Pair(input, Default)

default_reconstruct_literal(input) == Pair(input, Default)

\* mutant: the operands are rebuilt in each other's place
default_reconstruct_binary_swapped(input) ==
    Pair([node |-> "Binary",
          left |-> default_reconstruct_expression(input.right).expr,
          right |-> default_reconstruct_expression(input.left).expr,
          op |-> input.op,
          span |-> input.span],
         Default)

default_reconstruct_binary(input) ==
    Pair([node |-> "Binary",
          left |-> default_reconstruct_expression(input.left).expr,
          right |-> default_reconstruct_expression(input.right).expr,
          op |-> input.op,
          span |-> input.span],
         Default)

default_reconstruct_unary(input) ==
    Pair([node |-> "Unary",
          receiver |-> default_reconstruct_expression(input.receiver).expr,
          op |-> input.op,
          span |-> input.span],
         Default)

default_reconstruct_ternary(input) ==
    Pair([node |-> "Ternary",
          condition |-> default_reconstruct_expression(input.condition).expr,
          if_true |-> default_reconstruct_expression(input.if_true).expr,
          if_false |-> default_reconstruct_expression(input.if_false).expr,
          span |-> input.span],
         Default)

\* into_iter().map(|arg| self.reconstruct_expression(arg).0).collect()
default_reconstruct_arguments(arguments, i) ==
    IF i > Len(arguments) THEN <<>>
    ELSE <<default_reconstruct_expression(arguments[i]).expr>> \o default_reconstruct_arguments(arguments, i + 1)

default_reconstruct_call(input) ==
    Pair([node |-> "Call",
          function |-> default_reconstruct_expression(input.function).expr,
          arguments |-> default_reconstruct_arguments(input.arguments, 1),
          span |-> input.span],
         Default)

default_reconstruct_err(input) == Pair(input, Default)

default_reconstruct_expression(input) ==
    CASE input.node = "Identifier" -> default_reconstruct_identifier(input)
      [] input.node = "Literal" -> default_reconstruct_literal(input)
      [] input.node = "Binary" -> default_reconstruct_binary(input)
      [] input.node = "Unary" -> default_reconstruct_unary(input)
      [] input.node = "Ternary" -> default_reconstruct_ternary(input)
      [] input.node = "Call" -> default_reconstruct_call(input)
      [] input.node = "Err" -> default_reconstruct_err(input)

RECURSIVE reconstruct_statement(_)
RECURSIVE reconstruct_conditional(_)
RECURSIVE reconstruct_iteration(_)
RECURSIVE reconstruct_block(_)
RECURSIVE reconstruct_statements(_, _)

reconstruct_return(input) ==
    [stmt |-> "Return",
     expression |-> default_reconstruct_expression(input.expression).expr,
     span |-> input.span]

reconstruct_definition(input) ==
    [stmt |-> "Definition",
     declaration_type |-> input.declaration_type,
     variable_name |-> input.variable_name,
     type_ |-> input.type_,
     value |-> default_reconstruct_expression(input.value).expr,
     span |-> input.span]

reconstruct_assign(input) ==
    [stmt |-> "Assign",
     operation |-> input.operation,
     place |-> input.place,
     value |-> default_reconstruct_expression(input.value).expr,
     span |-> input.span]

reconstruct_conditional(input) ==
    [stmt |-> "Conditional",
     condition |-> default_reconstruct_expression(input.condition).expr,
     block |-> reconstruct_block(input.block),
     next |-> IF input.next.some THEN Some(reconstruct_statement(input.next.v)) ELSE None,
     span |-> input.span]

reconstruct_iteration(input) ==
    [stmt |-> "Iteration",
     variable |-> input.variable,
     type_ |-> input.type_,
     start |-> default_reconstruct_expression(input.start).expr,
     stop |-> default_reconstruct_expression(input.stop).expr,
     block |-> reconstruct_block(input.block),
     inclusive |-> input.inclusive,
     span |-> input.span]

reconstruct_console(input) ==
    [stmt |-> "Console",
     function |->
         IF input.function.kind = "Assert"
         THEN [kind |-> "Assert", expr |-> default_reconstruct_expression(input.function.expr).expr]
         ELSE [kind |-> input.function.kind,
               string |-> input.function.string,
               parameters |-> default_reconstruct_arguments(input.function.parameters, 1),
               span |-> input.function.span],
     span |-> input.span]

\* into_iter().map(|s| self.reconstruct_statement(s)).collect()
reconstruct_statements(statements, i) ==
    IF i > Len(statements) THEN <<>>
    ELSE <<reconstruct_statement(statements[i])>> \o reconstruct_statements(statements, i + 1)

reconstruct_block(input) ==
    [statements |-> reconstruct_statements(input.statements, 1), span |-> input.span]

reconstruct_statement(input) ==
    CASE input.stmt = "Return" -> reconstruct_return(input)
      [] input.stmt = "Definition" -> reconstruct_definition(input)
      [] input.stmt = "Assign" -> reconstruct_assign(input)
      [] input.stmt = "Conditional" -> reconstruct_conditional(input)
      [] input.stmt = "Iteration" -> reconstruct_iteration(input)
      [] input.stmt = "Console" -> reconstruct_console(input)
      [] input.stmt = "Block" -> [stmt |-> "Block", block |-> reconstruct_block(input.block)]

reconstruct_function(input) ==
    [identifier |-> input.identifier,
     input |-> input.input,
     output |-> input.output,
     core_mapping |-> input.core_mapping,
     block |-> reconstruct_block(input.block),
     span |-> input.span]

RECURSIVE reconstruct_functions(_, _)
\* into_iter().map(|(i, f)| (i, self.reconstruct_function(f))).collect()
reconstruct_functions(functions, i) ==
    IF i > Len(functions) THEN <<>>
    ELSE <<<<functions[i][1], reconstruct_function(functions[i][2])>>>> \o reconstruct_functions(functions, i + 1)

reconstruct_program(input) ==
    [name |-> input.name,
     expected_input |-> input.expected_input,
     functions |-> reconstruct_functions(input.functions, 1)]

(***************************************************************************)
(* Inputs of the default Reconstructor.                                    *)
(***************************************************************************)
DefaultExprs == FlatLeaves \cup NestedBinaries \cup Unaries \cup Ternaries \cup Calls \cup {ErrExpression}

\* expressions inside generated statements: a literal, a name, a constant sum
StatementExprs ==
    {Literal("U8", <<"1">>, 0), Identifier("x"),
     BinaryExpression(Literal("U8", <<"1">>, 0), Literal("U8", <<"3">>, 0), "Add", 2)}

Block(statements, span) == [statements |-> statements, span |-> span]

\* statements without nested blocks, at position sp
DefaultLeaves(sp) ==
    {[stmt |-> "Return", expression |-> e, span |-> sp] : e \in StatementExprs}
    \cup {[stmt |-> "Definition", declaration_type |-> dt, variable_name |-> "x", type_ |-> "U8",
           value |-> e, span |-> sp] : dt \in {"Const", "Let"}, e \in StatementExprs}
    \cup {[stmt |-> "Assign", operation |-> o, place |-> Identifier("y"), value |-> e, span |-> sp] :
             o \in {"Assign", "Add"}, e \in StatementExprs}
    \cup {[stmt |-> "Console", function |-> [kind |-> "Assert", expr |-> e], span |-> sp] : e \in StatementExprs}
    \cup {[stmt |-> "Console",
           function |-> [kind |-> k, string |-> "s", parameters |-> <<e, Identifier("y")>>, span |-> sp],
           span |-> sp] : k \in {"Error", "Log"}, e \in StatementExprs}

\* statements that may follow the first statement of a generated Block
TailOf(sp) ==
    {[stmt |-> "Return", expression |-> Identifier("x"), span |-> sp],
     [stmt |-> "Assign", operation |-> "Assign", place |-> Identifier("y"),
      value |-> BinaryExpression(Literal("U8", <<"1">>, 0), Literal("U8", <<"3">>, 0), "Add", 2), span |-> sp]}

RECURSIVE DefaultLeafSeqs(_)
\* sequences of exactly k leaf statements, the i-th at position i
DefaultLeafSeqs(k) ==
    IF k = 0 THEN {<<>>}
    ELSE {Append(b, s) : b \in DefaultLeafSeqs(k - 1), s \in IF k <= 1 THEN DefaultLeaves(k) ELSE TailOf(k)}

DefaultLeafBlocks == {Block(s, 0) : s \in UNION {DefaultLeafSeqs(k) : k \in 0..MaxLen}}

\* bodies of generated Conditionals, Iterations, Block statements and Functions
Bodies ==
    {Block(<<>>, 5),
     Block(<<[stmt |-> "Return", expression |-> Identifier("x"), span |-> 6]>>, 5),
     Block(<<[stmt |-> "Assign", operation |-> "Assign", place |-> Identifier("y"),
              value |-> Literal("U8", <<"1">>, 0), span |-> 6],
             [stmt |-> "Return", expression |-> Identifier("y"), span |-> 7]>>, 5)}

DefaultNested ==
    {[stmt |-> "Block", block |-> b] : b \in Bodies}
    \cup {[stmt |-> "Iteration", variable |-> "x", type_ |-> "U8", start |-> e1, stop |-> e2, block |-> b,
           inclusive |-> inc, span |-> 1] :
             e1 \in StatementExprs, e2 \in StatementExprs, b \in Bodies, inc \in BOOLEAN}
    \cup {[stmt |-> "Conditional", condition |-> c, block |-> b, next |-> nx, span |-> 1] :
             c \in StatementExprs, b \in Bodies,
             nx \in {None}
                    \cup {Some([stmt |-> "Block", block |-> b2]) : b2 \in Bodies}
                    \cup {Some([stmt |-> "Conditional", condition |-> Identifier("y"), block |-> b2,
                                next |-> None, span |-> 8]) : b2 \in Bodies}}

DefaultStatements == DefaultLeaves(1) \cup DefaultNested

DefaultBlocks ==
    DefaultLeafBlocks
    \cup {Block(<<n>>, 0) : n \in DefaultNested}
    \cup {Block(<<s, n>>, 0) : s \in TailOf(1), n \in {m \in DefaultNested : m.stmt = "Block"}}

\* functions with and without parameters
DefaultFunctions ==
    {[identifier |-> n, input |-> ps, output |-> t, core_mapping |-> None, block |-> b, span |-> 9] :
        n \in Functions, ps \in {<<>>, <<[name |-> "x", mode |-> "Const", type_ |-> "U8"]>>},
        t \in Types, b \in Bodies}

\* programs of up to two functions, kept in an ordered map from name to function
DefaultPrograms ==
    {[name |-> "p", expected_input |-> <<>>, functions |-> fs] :
        fs \in {<<>>}
               \cup {<<<<f.identifier, f>>>> : f \in DefaultFunctions}
               \cup {<<<<f.identifier, f>>, <<g.identifier, g>>>> :
                        f \in {h \in DefaultFunctions : h.identifier = "g"},
                        g \in {h \in DefaultFunctions : h.identifier = "f" /\ h.input = <<>>}}}

(***************************************************************************)
(* The default Reconstructor as a state machine.                           *)
(***************************************************************************)
DefaultInit ==
    /\ symbol_table = <<EmptyScope>>
    /\ handler = <<>>
    /\ has_return = FALSE
    /\ parent = "f"
    /\ visits = <<>>
    /\ call = NoCall
    /\ output = NoOutput
    /\ engine = <<>>
    /\ panicked = FALSE

\* the method `op` runs on `input` and returns the node, for an expression
\* with the additional output val
Returned(op, input, node, val) ==
    /\ call' = [op |-> op, input |-> input]
    /\ output' = [expr |-> node, val |-> val]
    /\ UNCHANGED <<symbol_table, handler, has_return, parent, visits, engine, panicked>>

DefaultReconstructExpression ==
    Idle /\ \E e \in DefaultExprs :
        Returned("reconstruct_expression", e,
                 default_reconstruct_expression(e).expr, default_reconstruct_expression(e).val)

ReconstructStatement ==
    Idle /\ \E s \in DefaultStatements : Returned("reconstruct_statement", s, reconstruct_statement(s), None)

ReconstructBlock ==
    Idle /\ \E b \in DefaultBlocks : Returned("reconstruct_block", b, reconstruct_block(b), None)

ReconstructFunction ==
    Idle /\ \E f \in DefaultFunctions : Returned("reconstruct_function", f, reconstruct_function(f), None)

ReconstructProgram ==
    Idle /\ \E p \in DefaultPrograms : Returned("reconstruct_program", p, reconstruct_program(p), None)

DefaultNext ==
    \/ DefaultReconstructExpression
    \/ ReconstructStatement
    \/ ReconstructBlock
    \/ ReconstructFunction
    \/ ReconstructProgram
    \/ Resume

DefaultSpec == DefaultInit /\ [][DefaultNext]_vars

(***************************************************************************)
(* Properties of the default Reconstructor.                                *)
(***************************************************************************)
RECURSIVE NothingFolded(_)
RECURSIVE NothingFoldedIn(_, _)
\* the additional output of every expression i.. of a sequence and of their
\* subexpressions is the default
NothingFoldedIn(es, i) == i > Len(es) \/ (NothingFolded(es[i]) /\ NothingFoldedIn(es, i + 1))

\* the additional output of e and of every subexpression of e is the default
NothingFolded(e) ==
    /\ default_reconstruct_expression(e).val = Default
    /\ CASE e.node = "Binary" -> NothingFolded(e.left) /\ NothingFolded(e.right)
         [] e.node = "Unary" -> NothingFolded(e.receiver)
         [] e.node = "Ternary" -> NothingFolded(e.condition) /\ NothingFolded(e.if_true) /\ NothingFolded(e.if_false)
         [] e.node = "Call" -> NothingFolded(e.function) /\ NothingFoldedIn(e.arguments, 1)
         [] OTHER -> TRUE

\* C16: with no method overridden, reconstruct_expression, reconstruct_statement,
\* reconstruct_block, reconstruct_function and reconstruct_program return a
\* tree equal to their input, and the additional output of every expression is
\* the default: nothing is folded
Thm_C16_DefaultIdentity ==
    [][call'.op \in {"reconstruct_expression", "reconstruct_statement", "reconstruct_block",
                     "reconstruct_function", "reconstruct_program"} =>
         /\ output'.expr = call'.input
         /\ call'.op = "reconstruct_expression" => (output'.val = Default /\ NothingFolded(call'.input))
         /\ UNCHANGED <<symbol_table, handler>>]_vars

\* a constant sum below a Binary came back as it went in, with no Value
Wit_C16 ==
    /\ call.op = "reconstruct_expression"
    /\ call.input.node = "Binary"
    /\ call.input.left.node = "Binary"
    /\ call.input.left # call.input.right
    /\ ConstantOf(call.input.left).some
    /\ output.expr = call.input
    /\ output.val = None

====
